---------------------------- MODULE Spec2Model ----------------------------
(***************************************************************************)
(* A model of multi-proxy-config-fetcher (src/src/config.py and            *)
(* src/src/config_validator.py).                                           *)
(*                                                                         *)
(* Text is a sequence of one-character strings, so that find, startswith,  *)
(* strip, split and replace are computed position by position as Python    *)
(* computes them.  Positions are 0-based as in the source; Sub(s, i, j) is *)
(* the slice s[i:j].                                                       *)
(***************************************************************************)
EXTENDS Integers, Sequences, FiniteSets

VARIABLES
    \* ConfigValidator.split_configs: its argument, its return value, and
    \* whether the call has returned
    sc_text, sc_out, sc_pc,
    \* ProxyConfig._remove_duplicate_urls: the urls of the ChannelConfig list
    \* it is given, the positions (in that list) of the objects it returns,
    \* and whether the call has returned
    dd_in, dd_out, dd_pc,
    \* the file OUTPUT_CONFIG_FILE: NoFile until it is written, then its
    \* lines
    output_file,
    \* ProxyConfig: the registry (a sequence of ChannelConfig objects), the
    \* acquisition mode and the protocol catalog
    SOURCE_URLS, use_maximum_power, SUPPORTED_PROTOCOLS,
    \* ChannelConfig, per object: enabled, check_count and its ChannelMetrics
    enabled, check_count, metrics,
    \* datetime.now(), in whole hours
    now,
    \* the geo database handed to process_channel: None or "db"
    ip_db,
    \* process_channel, per channel: where its coroutine stands ("idle": not
    \* called, "fetching": inside `async with semaphore`, awaiting the
    \* transport, "done": returned) and the list it returned last
    pc, results,
    \* asyncio.Semaphore: the permits left
    sem_value,
    \* main and process_all_channels: where the run stands, the channels it
    \* was given, the channels in the order their cycles completed, and
    \* proxies_all
    run_pc, channels, done_order, proxies_all,
    \* the tasks of a gather over many channels, counted: not yet inside the
    \* semaphore, inside it, and returned
    g_pending, g_inflight, g_done

splitVars == <<sc_text, sc_out, sc_pc>>
dedupVars == <<dd_in, dd_out, dd_pc>>
catalogVars == <<use_maximum_power, SUPPORTED_PROTOCOLS>>
channelVars == <<enabled, check_count, metrics>>
taskVars == <<pc, results, sem_value>>
runVars == <<run_pc, channels, done_order, proxies_all>>
gatherVars == <<g_pending, g_inflight, g_done>>
vars == <<sc_text, sc_out, sc_pc, dd_in, dd_out, dd_pc, output_file,
          SOURCE_URLS, use_maximum_power, SUPPORTED_PROTOCOLS, enabled, check_count,
          metrics, now, ip_db, pc, results, sem_value, run_pc, channels,
          done_order, proxies_all, g_pending, g_inflight, g_done>>

-----------------------------------------------------------------------------
(* Bounds of the model *)

\* the longest input of split_configs, in pieces of SplitPieces
MaxPieces == 3

\* the longest list of sources given to _remove_duplicate_urls
MaxSources == 2

\* the ChannelConfig objects of a run of main
NumChannels == 2

\* the fetch cycles a channel gets in a sequence of process_channel calls
MaxChecks == 31

\* the calls of update_channel_stats a channel gets
MaxStatCalls == 1

\* the hours the clock runs
MaxClock == 1

\* the tasks of a gather over more channels than the semaphore has permits
NumTasks == 62

-----------------------------------------------------------------------------
(* Python str operations *)

Min(S) == CHOOSE x \in S : \A y \in S : x <= y

\* s[i:j] for 0 <= i, j (clipped to the text as Python clips a slice)
Sub(s, i, j) ==
    LET hi == IF j > Len(s) THEN Len(s) ELSE j
    IN  IF i >= hi THEN << >> ELSE [k \in 1..(hi - i) |-> s[i + k]]

\* s.startswith(p)
StartsWith(s, p) == Len(p) <= Len(s) /\ \A k \in 1..Len(p) : s[k] = p[k]

\* s[i:].startswith(p)
MatchAt(s, p, i) ==
    i + Len(p) <= Len(s) /\ \A k \in 1..Len(p) : s[i + k] = p[k]

\* s.find(p, from): the lowest position >= from where p occurs, or -1
Find(s, p, from) ==
    LET hits == {i \in from..(Len(s) - Len(p)) : MatchAt(s, p, i)}
    IN  IF hits = {} THEN -1 ELSE Min(hits)

\* the characters str.strip() removes, among those the model's texts hold
Whitespace == {" ", "\n", "\t", "\r"}

\* s.strip()
Strip(s) ==
    LET keep == {k \in 1..Len(s) : s[k] \notin Whitespace}
    IN  IF keep = {} THEN << >>
        ELSE LET lo == Min(keep)
                 hi == CHOOSE k \in keep : \A m \in keep : m <= k
             IN  Sub(s, lo - 1, hi)

\* s.rstrip(c) for a one-character c
RStripChar(s, c) ==
    LET keep == {k \in 1..Len(s) : s[k] # c}
    IN  IF keep = {} THEN << >>
        ELSE Sub(s, 0, CHOOSE k \in keep : \A m \in keep : m <= k)

\* s.split(sep) for a one-character sep: the pieces between the separators
RECURSIVE SplitOn(_, _)
SplitOn(s, sep) ==
    LET at == Find(s, <<sep>>, 0)
    IN  IF at = -1 THEN <<s>>
        ELSE <<Sub(s, 0, at)>> \o SplitOn(Sub(s, at + 1, Len(s)), sep)

\* the concatenation of a sequence of texts
RECURSIVE Concat(_)
Concat(ss) == IF ss = << >> THEN << >> ELSE Head(ss) \o Concat(Tail(ss))

-----------------------------------------------------------------------------
(* config_validator.py *)

P_VLESS  == <<"v","l","e","s","s",":","/","/">>
P_TROJAN == <<"t","r","o","j","a","n",":","/","/">>
P_TUIC   == <<"t","u","i","c",":","/","/">>
P_HY2    == <<"h","y","2",":","/","/">>
P_HYSTERIA2 == <<"h","y","s","t","e","r","i","a","2",":","/","/">>

ALLOWED_PROTOCOLS == <<P_VLESS, P_TROJAN, P_TUIC, P_HY2>>

ProtocolSet == {ALLOWED_PROTOCOLS[i] : i \in 1..Len(ALLOWED_PROTOCOLS)}

\* the base64 alphabet in value order: B64Alphabet[v + 1] encodes v
B64Alphabet ==
    <<"A","B","C","D","E","F","G","H","I","J","K","L","M","N","O","P",
      "Q","R","S","T","U","V","W","X","Y","Z","a","b","c","d","e","f",
      "g","h","i","j","k","l","m","n","o","p","q","r","s","t","u","v",
      "w","x","y","z","0","1","2","3","4","5","6","7","8","9","+","/">>

B64Set == {B64Alphabet[i] : i \in 1..64}

\* the printable ASCII characters in code order: Ascii[c - 31] is chr(c)
Ascii ==
    <<" ","!","\"","#","$","%","&","'","(",")","*","+",",","-",".","/",
      "0","1","2","3","4","5","6","7","8","9",":",";","<","=",">","?",
      "@","A","B","C","D","E","F","G","H","I","J","K","L","M","N","O",
      "P","Q","R","S","T","U","V","W","X","Y","Z","[","\\","]","^","_",
      "bq","a","b","c","d","e","f","g","h","i","j","k","l","m","n","o",
      "p","q","r","s","t","u","v","w","x","y","z","{","|","}","~">>

\* chr(c) for a byte below 128.  The backquote is written "bq" and a control
\* character other than newline, tab and carriage return "ctl": no operation
\* of the model tells them from any other character that is not matched.
Chr(c) ==
    IF c >= 32 /\ c <= 126 THEN Ascii[c - 31]
    ELSE IF c = 10 THEN "\n"
    ELSE IF c = 9 THEN "\t"
    ELSE IF c = 13 THEN "\r"
    ELSE "ctl"

\* ConfigValidator.is_base64: after rstrip of the padding character, every
\* character is a letter, a digit, plus, slash, minus or underscore
is_base64(s) ==
    LET t == RStripChar(s, "=")
    IN  \A k \in 1..Len(t) : t[k] \in B64Set \cup {"-", "_"}

\* the 6-bit value of a character of the (URL-safe or standard) alphabet
B64Value(c) ==
    LET std == IF c = "-" THEN "+" ELSE IF c = "_" THEN "/" ELSE c
    IN  (CHOOSE i \in 1..64 : B64Alphabet[i] = std) - 1

\* the bytes of the full 4-character groups of the data characters d
RECURSIVE B64Bytes(_)
B64Bytes(d) ==
    IF Len(d) < 2 THEN << >>
    ELSE LET v1 == B64Value(d[1])
             v2 == B64Value(d[2])
             b1 == v1 * 4 + (v2 \div 16)
         IN  IF Len(d) = 2 THEN <<b1>>
             ELSE LET v3 == B64Value(d[3])
                      b2 == (v2 % 16) * 16 + (v3 \div 4)
                  IN  IF Len(d) = 3 THEN <<b1, b2>>
                      ELSE LET v4 == B64Value(d[4])
                               b3 == (v3 % 4) * 64 + v4
                           IN  <<b1, b2, b3>> \o B64Bytes(Sub(d, 4, Len(d)))

None == "None"

\* ConfigValidator.decode_base64_url on a text that passed is_base64: the
\* padding is made up to a multiple of four and base64.b64decode is applied;
\* it raises (None is returned) when the data characters number one more than
\* a multiple of four
decode_base64_url(s) ==
    LET d == RStripChar(s, "=")
    IN  IF Len(d) % 4 = 1 THEN None ELSE B64Bytes(d)

\* bytes.decode('utf-8'): the text, or None when the bytes are no UTF-8.
\* A lead byte takes the continuation bytes its high bits announce; a
\* character outside ASCII is written "u8".
RECURSIVE Utf8Decode(_)
Utf8Decode(b) ==
    IF b = << >> THEN << >>
    ELSE LET c == b[1]
             need == IF c < 128 THEN 0
                     ELSE IF c >= 194 /\ c <= 223 THEN 1
                     ELSE IF c >= 224 /\ c <= 239 THEN 2
                     ELSE IF c >= 240 /\ c <= 244 THEN 3
                     ELSE -1
         IN  IF need = -1 \/ Len(b) < 1 + need THEN None
             ELSE IF \E k \in 2..(1 + need) : b[k] < 128 \/ b[k] > 191
                  THEN None
             ELSE LET rest == Utf8Decode(Sub(b, 1 + need, Len(b)))
                  IN  IF rest = None THEN None
                      ELSE <<IF need = 0 THEN Chr(c) ELSE "u8">> \o rest

\* ConfigValidator.decode_base64_text
decode_base64_text(text) ==
    IF is_base64(text)
    THEN LET decoded == decode_base64_url(text)
         IN  IF decoded # None /\ decoded # << >> THEN Utf8Decode(decoded)
             ELSE None
    ELSE None

\* ConfigValidator.check_base64_content: the decoded text when it holds an
\* allowed protocol, else None
check_base64_content(text) ==
    LET decoded_text == decode_base64_text(text)
    IN  IF decoded_text # None /\ decoded_text # << >>
           /\ \E p \in ProtocolSet : Find(decoded_text, p, 0) # -1
        THEN decoded_text
        ELSE None

\* ConfigValidator.normalize_hysteria2_protocol
normalize_hysteria2_protocol(config) ==
    IF StartsWith(config, P_HYSTERIA2)
    THEN P_HY2 \o Sub(config, Len(P_HYSTERIA2), Len(config))
    ELSE config

\* ConfigValidator.is_valid_config
is_valid_config(config) ==
    config # << >> /\ \E p \in ProtocolSet : StartsWith(config, p)

\* the first loop over the protocols in split_configs' scan: the protocol
\* with the lowest occurrence at or after `from` (the first of the list on a
\* tie), as <<position, protocol index>>; <<Len(text), 0>> when none occurs
RECURSIVE NearestProtocol(_, _, _, _)
NearestProtocol(text, from, i, best) ==
    IF i > Len(ALLOWED_PROTOCOLS) THEN best
    ELSE LET protocol_pos == Find(text, ALLOWED_PROTOCOLS[i], from)
         IN  NearestProtocol(text, from, i + 1,
                 IF protocol_pos # -1 /\ protocol_pos < best[1]
                 THEN <<protocol_pos, i>> ELSE best)

\* the while loop of split_configs over the working text, from current_pos
RECURSIVE ScanText(_, _, _)
ScanText(text, current_pos, configs) ==
    IF current_pos >= Len(text) THEN configs
    ELSE
      LET near == NearestProtocol(text, current_pos, 1, <<Len(text), 0>>)
          next_config_start == near[1]
      IN  IF near[2] = 0 THEN configs
          ELSE
            LET matching_protocol == ALLOWED_PROTOCOLS[near[2]]
                before == Strip(Sub(text, current_pos, next_config_start))
                configs1 ==
                    IF current_pos < next_config_start /\ configs # << >>
                       /\ is_valid_config(before)
                    THEN Append(configs, before) ELSE configs
                next_protocol_pos ==
                    NearestProtocol(text,
                        next_config_start + Len(matching_protocol), 1,
                        <<Len(text), 0>>)[1]
                found == Strip(Sub(text, next_config_start, next_protocol_pos))
                current_config ==
                    IF matching_protocol = P_HY2
                    THEN normalize_hysteria2_protocol(found) ELSE found
                configs2 ==
                    IF is_valid_config(current_config)
                    THEN Append(configs1, current_config) ELSE configs1
            IN  ScanText(text, next_protocol_pos, configs2)

\* the for loop of split_configs over the lines: every non-empty line runs
\* the scan over the working text `text`, which a base64 line replaces
RECURSIVE SplitLines(_, _, _)
SplitLines(lines, text, configs) ==
    IF lines = << >> THEN configs
    ELSE LET line == Strip(Head(lines))
         IN  IF line = << >> THEN SplitLines(Tail(lines), text, configs)
             ELSE LET decoded_content ==
                          IF is_base64(line) THEN check_base64_content(line)
                          ELSE None
                      text1 == IF decoded_content # None THEN decoded_content
                               ELSE text
                  IN  SplitLines(Tail(lines), text1,
                                 ScanText(text1, 0, configs))

\* ConfigValidator.split_configs
split_configs(text) == SplitLines(SplitOn(text, "\n"), text, << >>)

-----------------------------------------------------------------------------
(* config.py: the source registry *)

S_HTTP   == <<"h","t","t","p",":","/","/">>
S_HTTPS  == <<"h","t","t","p","s",":","/","/">>
S_SSCONF == <<"s","s","c","o","n","f",":","/","/">>
T_ME_S   == <<"t",".","m","e","/","s","/">>
TELEGRAM == <<"t","e","l","e","g","r","a","m",":">>

\* c.lower() for one character: Ascii holds "A".."Z" at 34..59 and the
\* lower-case letters 32 places later
LowerChar(c) ==
    IF \E i \in 34..59 : Ascii[i] = c
    THEN Ascii[(CHOOSE i \in 34..59 : Ascii[i] = c) + 32]
    ELSE c

\* s.lower()
Lower(s) == [k \in 1..Len(s) |-> LowerChar(s[k])]

\* s.strip(c) for a one-character c
StripChar(s, c) ==
    LET keep == {k \in 1..Len(s) : s[k] # c}
    IN  IF keep = {} THEN << >>
        ELSE Sub(s, Min(keep) - 1, CHOOSE k \in keep : \A m \in keep : m <= k)

\* the lowest position >= from of a character of cs, or Len(s)
FirstOf(s, cs, from) ==
    LET hits == {i \in from..(Len(s) - 1) : s[i + 1] \in cs}
    IN  IF hits = {} THEN Len(s) ELSE Min(hits)

\* the highest position of character c in s, or -1 (str.rfind)
RFind(s, c) ==
    LET hits == {i \in 0..(Len(s) - 1) : s[i + 1] = c}
    IN  IF hits = {} THEN -1 ELSE CHOOSE i \in hits : \A j \in hits : j <= i

\* ChannelConfig._validate_url: the stripped url, or None when it raises
validate_url(url) ==
    LET u == Strip(url)
    IN  IF url # << >>
           /\ (StartsWith(u, S_HTTP) \/ StartsWith(u, S_HTTPS)
                \/ StartsWith(u, S_SSCONF))
        THEN u ELSE None

\* urllib.parse.urlparse of a url that begins with a scheme and a colon: the
\* scheme is put in lower case, the netloc runs from the "//" to the first "/", "?" or "#", the path from
\* there to the first "?" or "#", the query from the first "?" to the "#",
\* and the parameters, from the first ";" of the last path segment, are taken
\* off the path (urlparse does so for http and https; the path of no other
\* scheme is read by the code).
\* (Brackets in the netloc and tab, newline and carriage return inside the
\* url, which urlparse treats specially, are in no url of the model.)
urlparse(url) ==
    LET colon == Find(url, <<":">>, 0)
        scheme == Lower(Sub(url, 0, colon))
        rest == Sub(url, colon + 1, Len(url))
        slashes == StartsWith(rest, <<"/", "/">>)
        netEnd == IF slashes THEN FirstOf(rest, {"/", "?", "#"}, 2) ELSE 0
        netloc == IF slashes THEN Sub(rest, 2, netEnd) ELSE << >>
        after == Sub(rest, netEnd, Len(rest))
        path0 == Sub(after, 0, FirstOf(after, {"?", "#"}, 0))
        semi == IF RFind(path0, "/") # -1
                THEN Find(path0, <<";">>, RFind(path0, "/"))
                ELSE Find(path0, <<";">>, 0)
        path == IF semi = -1 THEN path0 ELSE Sub(path0, 0, semi)
        nofrag == Sub(after, 0, FirstOf(after, {"#"}, 0))
        mark == Find(nofrag, <<"?">>, 0)
        query == IF mark = -1 THEN << >> ELSE Sub(nofrag, mark + 1, Len(nofrag))
    IN  [scheme |-> scheme, netloc |-> netloc, path |-> path, query |-> query]

\* ProxyConfig._normalize_url: the normalized key, or None when it raises
normalize_url(url0) ==
    IF url0 = << >> THEN None
    ELSE
      LET stripped == Strip(url0)
          url == IF StartsWith(stripped, S_SSCONF)
                 THEN S_HTTPS \o Sub(stripped, Len(S_SSCONF), Len(stripped))
                 ELSE stripped
          parsed == urlparse(url)
          path == RStripChar(parsed.path, "/")
      IN  IF parsed.scheme = << >> \/ parsed.netloc = << >> THEN None
          ELSE IF StartsWith(parsed.netloc, T_ME_S)
               THEN TELEGRAM \o Lower(StripChar(parsed.path, "/"))
          ELSE parsed.scheme \o <<":", "/", "/">> \o parsed.netloc \o path

\* the loop of _remove_duplicate_urls from position i: `seen` are the keys
\* met so far, `unique` the positions kept
RECURSIVE DedupLoop(_, _, _, _)
DedupLoop(urls, i, seen, unique) ==
    IF i > Len(urls) THEN unique
    ELSE LET normalized_url == normalize_url(urls[i])
         IN  IF normalized_url = None
             THEN DedupLoop(urls, i + 1, seen, unique)
             ELSE IF normalized_url \notin seen
                  THEN DedupLoop(urls, i + 1, seen \cup {normalized_url},
                                 Append(unique, i))
             ELSE DedupLoop(urls, i + 1, seen, unique)

\* ProxyConfig._remove_duplicate_urls: the positions of the sources kept
remove_duplicate_urls(urls) == DedupLoop(urls, 1, {}, << >>)

\* ProxyConfig.save_empty_config_file: the content of the output file after it
save_empty_config_file == << >>

\* The urls of the model's sources
DedupHosts == {<<"t",".","m","e">>, <<"x",".","y">>, << >>}
DedupPaths ==
    {<< >>, <<"/">>, <<"/","s","/","A","b">>, <<"/","s","/","a","b">>,
     <<"/","s","/","a","b","/">>, <<"/","s","/","a","b","?","q">>}
DedupUrls ==
    {validate_url(sch \o h \o p) :
        sch \in {S_HTTPS, S_SSCONF}, h \in DedupHosts, p \in DedupPaths}

RECURSIVE UrlLists(_)
UrlLists(n) ==
    IF n = 0 THEN {<< >>}
    ELSE LET shorter == UrlLists(n - 1)
         IN  shorter \cup {Append(l, u) : l \in shorter, u \in DedupUrls}

-----------------------------------------------------------------------------
(* config.py: source metrics and the source score *)

MAX_SOURCE_CHECKS == 30
MIN_ACCEPTABLE_SCORE == 50
RELIABILITY_WEIGHT == 35
QUANTITY_WEIGHT == 25
DIVERSITY_WEIGHT == 25
FREQUENCY_WEIGHT == 15
PROFILE_MAX_COUNT == 1000
DESIRED_TOTAL_CONFIGS == PROFILE_MAX_COUNT
TOTAL_POSSIBLE_PROTOCOLS == 4

\* last_success_time = None
NoTime == -1

\* ChannelMetrics(): protocol_counts[i] is the count under the key
\* ALLOWED_PROTOCOLS[i], 0 when the dict has no such key.  overall_score is
\* kept in hundredths (the code rounds it to two decimals) and
\* avg_response_time in milliseconds.
NewMetrics ==
    [total_configs |-> 0, valid_configs |-> 0, unique_configs |-> 0,
     avg_response_time |-> 0, last_success_time |-> NoTime,
     fail_count |-> 0, success_count |-> 0, overall_score |-> 0,
     protocol_counts |-> [i \in 1..Len(ALLOWED_PROTOCOLS) |-> 0]]

\* n / d rounded to the nearest integer, a half going up
RoundDiv(n, d) == (2 * n + d) \div (2 * d)

\* n / d rounded to the nearest integer, a half going down
RoundHalfDown(n, d) == (2 * n + d - 1) \div (2 * d)

\* the attempts counted without the successes: max(1, fail_count)
TotalAttemptsFailuresOnly(m) ==
    IF m.fail_count > 1 THEN m.fail_count ELSE 1

\* total_attempts = max(1, success_count + fail_count)
TotalAttempts(m) ==
    IF m.success_count + m.fail_count > 1
    THEN m.success_count + m.fail_count ELSE 1

\* ChannelConfig.calculate_overall_score at time t: the new overall_score, in
\* hundredths.  With the clock in whole hours the frequency score
\* FREQUENCY_WEIGHT * 3600 / (delta + 3600) is FREQUENCY_WEIGHT / (hours + 1).
\* The four scores are added as one fraction num / den and rounded once.
\* The code reads the clock again after last_success_time was set, so the
\* time since the last success is a little more than the whole hours and the
\* frequency score a little less than FREQUENCY_WEIGHT / (hours + 1): a sum
\* that is half a hundredth over a hundredth is rounded down.  Without a
\* last success the sum is 0.025 * total_configs, and round() takes the one
\* half the model meets, 0.025, up.
calculate_overall_score(m, t) ==
    LET total_attempts == TotalAttempts(m)
        seen == m.last_success_time # NoTime
        h1 == IF seen THEN (t - m.last_success_time) + 1 ELSE 1
        capped == IF m.total_configs > DESIRED_TOTAL_CONFIGS
                  THEN DESIRED_TOTAL_CONFIGS ELSE m.total_configs
        den == total_attempts * DESIRED_TOTAL_CONFIGS
                   * TOTAL_POSSIBLE_PROTOCOLS * h1
        reliability == RELIABILITY_WEIGHT * m.success_count
                          * DESIRED_TOTAL_CONFIGS * TOTAL_POSSIBLE_PROTOCOLS * h1
        quantity == QUANTITY_WEIGHT * capped * total_attempts
                          * TOTAL_POSSIBLE_PROTOCOLS * h1
        diversity == DIVERSITY_WEIGHT * m.unique_configs * total_attempts
                          * DESIRED_TOTAL_CONFIGS * h1
        frequency == IF seen
                     THEN FREQUENCY_WEIGHT * total_attempts
                              * DESIRED_TOTAL_CONFIGS * TOTAL_POSSIBLE_PROTOCOLS
                     ELSE 0
        num == reliability + quantity + diversity + frequency
    IN  IF h1 <= 0 THEN 0
        ELSE IF seen
             THEN 100 * (num \div den) + RoundHalfDown(100 * (num % den), den)
        ELSE 100 * (num \div den) + RoundDiv(100 * (num % den), den)

\* a breaker that would set the flag to the outcome of its test each time
BreakerAssignsCondition(was_enabled, checks, score) ==
    ~(checks >= MAX_SOURCE_CHECKS /\ score < 100 * MIN_ACCEPTABLE_SCORE)

\* the circuit breaker (config.py:337-338 and 468-469): the enabled flag after
\* it has looked at the check count and the score (in hundredths); it only
\* ever sets the flag to False
CircuitBreaker(was_enabled, checks, score) ==
    IF checks >= MAX_SOURCE_CHECKS /\ score < 100 * MIN_ACCEPTABLE_SCORE
    THEN FALSE ELSE was_enabled

-----------------------------------------------------------------------------
(* config.py: one fetch cycle, process_channel *)

\* text.splitlines(): the lines between line breaks.  Every line is stripped
\* and dropped when empty, so "\r\n" may be split as two breaks.
RECURSIVE splitlines(_)
splitlines(text) ==
    LET at == FirstOf(text, {"\n", "\r"}, 0)
    IN  IF at = Len(text) THEN (IF text = << >> THEN << >> ELSE <<text>>)
        ELSE <<Sub(text, 0, at)>> \o splitlines(Sub(text, at + 1, Len(text)))

\* the position in ALLOWED_PROTOCOLS of the first protocol the line starts
\* with, 0 when it starts with none
LineProtocol(line) ==
    LET hits == {i \in 1..Len(ALLOWED_PROTOCOLS) :
                    StartsWith(line, ALLOWED_PROTOCOLS[i])}
    IN  IF hits = {} THEN 0 ELSE Min(hits)

\* base_scores of compute_profile_score, by position in ALLOWED_PROTOCOLS
BaseScores == <<100, 90, 80, 70>>

\* compute_profile_score, in tenths: base + len(config) / 10.0
compute_profile_score(config) ==
    IF LineProtocol(config) = 0 THEN 0
    ELSE 10 * BaseScores[LineProtocol(config)] + Len(config)

Digits == {"0", "1", "2", "3", "4", "5", "6", "7", "8", "9"}

\* the number of digits (at most three) of s from position i
DigitRun(s, i) ==
    IF i + 1 > Len(s) \/ s[i + 1] \notin Digits THEN 0
    ELSE IF i + 2 > Len(s) \/ s[i + 2] \notin Digits THEN 1
    ELSE IF i + 3 > Len(s) \/ s[i + 3] \notin Digits THEN 2
    ELSE 3

\* the end of a match of \d{1,3}(?:\.\d{1,3}){3} that starts at i with n1
\* digits, or -1: after each of the first three groups comes a "." at once
IpEndFrom(s, i, n1) ==
    LET a == i + n1
        n2 == DigitRun(s, a + 1)
        b == a + 1 + n2
        n3 == DigitRun(s, b + 1)
        c == b + 1 + n3
        n4 == DigitRun(s, c + 1)
    IN  IF a < Len(s) /\ s[a + 1] = "." /\ n2 > 0
           /\ b < Len(s) /\ s[b + 1] = "." /\ n3 > 0
           /\ c < Len(s) /\ s[c + 1] = "." /\ n4 > 0
        THEN c + 1 + n4 ELSE -1

\* re.search(r'(\d{1,3}(?:\.\d{1,3}){3})', line): the matched text, or the
\* empty text when there is no match (a match is never empty)
ip_match(line) ==
    LET starts == {i \in 0..(Len(line) - 1) :
                      \E n \in 1..3 : n <= DigitRun(line, i)
                                        /\ IpEndFrom(line, i, n) # -1}
    IN  IF starts = {} THEN << >>
        ELSE LET i == Min(starts)
                 n == CHOOSE k \in 1..3 :
                          k <= DigitRun(line, i) /\ IpEndFrom(line, i, k) # -1
             IN  Sub(line, i, IpEndFrom(line, i, n))

\* the regional-indicator symbols, in the order of the letters A..Z
RegionalIndicators ==
    <<"RI_A","RI_B","RI_C","RI_D","RI_E","RI_F","RI_G","RI_H","RI_I","RI_J",
      "RI_K","RI_L","RI_M","RI_N","RI_O","RI_P","RI_Q","RI_R","RI_S","RI_T",
      "RI_U","RI_V","RI_W","RI_X","RI_Y","RI_Z">>

\* country_code_to_emoji: every letter, in upper case, moved to the
\* regional-indicator block (the codes of the model are letters only)
country_code_to_emoji(country_code) ==
    [k \in 1..Len(country_code) |->
        LET up == IF \E i \in 66..91 : Ascii[i] = country_code[k]
                  THEN Ascii[(CHOOSE i \in 66..91 : Ascii[i] = country_code[k]) - 32]
                  ELSE country_code[k]
        IN  RegionalIndicators[(CHOOSE i \in 34..59 : Ascii[i] = up) - 33]]

UNKNOWN == <<"U","n","k","n","o","w","n">>

\* what ip_db.get_all(ip) can do: raise, give a record without a country
\* code, or give the code of a country
GeoRaise == <<"r","a","i","s","e">>
GeoOutcomes == {GeoRaise, << >>, <<"U","S">>}

\* what the loop of process_channel reads of one line of the body: the
\* stripped line, the protocol it starts with, its profile score and the ip
\* literal found in it
ReadLine(raw) ==
    LET line == Strip(raw)
    IN  [line |-> line, proto |-> LineProtocol(line),
         score |-> compute_profile_score(line), ip |-> ip_match(line)]

\* a count of the records under all keys together
SumOfProtocolCounts(counts) ==
    counts[1] + counts[2] + counts[3] + counts[4]

\* len(channel.metrics.protocol_counts): the keys of the dict, which are the
\* protocols counted at least once
len_protocol_counts(counts) ==
    Cardinality({i \in DOMAIN counts : counts[i] > 0})

\* the body of the loop over the lines of process_channel (config.py:415-457)
\* from the metrics m and the list proxies; scores are in tenths; geo gives
\* what the lookup of each ip does during this cycle
RECURSIVE ProcessLines(_, _, _, _, _)
ProcessLines(lines, m, proxies, db, geo) ==
    IF lines = << >> THEN [metrics |-> m, proxies |-> proxies]
    ELSE
      LET read == Head(lines)
          m1 == [m EXCEPT !.total_configs = @ + 1]
          counts == [m.protocol_counts EXCEPT ![read.proto] = @ + 1]
          m2 == [m1 EXCEPT !.valid_configs = @ + 1,
                           !.protocol_counts = counts,
                           !.unique_configs = len_protocol_counts(counts)]
          looked == read.ip # << >> /\ db # None
          raised == looked /\ geo[read.ip] = GeoRaise
          flag == IF looked /\ ~raised /\ geo[read.ip] # << >>
                  THEN country_code_to_emoji(geo[read.ip]) ELSE UNKNOWN
          score1 == IF looked
                    THEN (IF raised THEN read.score ELSE read.score + 100)
                    ELSE read.score - 50
      IN  IF read.line = << >>
          THEN ProcessLines(Tail(lines), m, proxies, db, geo)
          ELSE IF read.proto = 0
               THEN ProcessLines(Tail(lines), m1, proxies, db, geo)
          ELSE ProcessLines(Tail(lines), m2,
                   Append(proxies, [config |-> read.line, flag |-> flag,
                                    score |-> score1]), db, geo)

\* the bodies a transport returns in the model
BODY_EMPTY == << >>
BODY_BLANK == <<" ","\n">>
BODY_NOISE == <<" ","\n","x">>
BODY_THREE == <<"x","\n","v","l","e","s","s",":","/","/","a","\n","t","r","o","j","a","n",":","/","/","b">>
BODY_A == <<"v","l","e","s","s",":","/","/","a">>
BODY_B == <<"v","l","e","s","s",":","/","/","b">>
BODY_TWICE == <<"v","l","e","s","s",":","/","/","a","\n","v","l","e","s","s",":","/","/","a">>
BODY_IP == <<"t","r","o","j","a","n",":","/","/","1",".","2",".","3",".","4","?","t","y","p","e","=","w","s">>
CycleBodies == {BODY_BLANK, BODY_THREE}
RunBodies == {BODY_EMPTY, BODY_NOISE, BODY_A, BODY_B, BODY_TWICE, BODY_IP}

\* text.splitlines() with every line read, for each body of the model
BodyLines ==
    [text \in CycleBodies \cup RunBodies |->
        LET lines == splitlines(text)
        IN  [k \in 1..Len(lines) |-> ReadLine(lines[k])]]

\* p['score'] *= 1 + overall_score / 100: from tenths to hundred-thousandths
ScaleScores(proxies, overall_score) ==
    [k \in 1..Len(proxies) |->
        [proxies[k] EXCEPT !.score = @ * (10000 + overall_score)]]

\* an except branch that would count the cycle as a success and not as a check
CycleOnErrorUncounted(ch, t) ==
    LET m1 == [ch.metrics EXCEPT !.success_count = @ + 1]
    IN  [enabled |-> ch.enabled,
         check_count |-> ch.check_count,
         metrics |-> [m1 EXCEPT !.overall_score = calculate_overall_score(m1, t)],
         proxies |-> << >>]

\* the transport raised (config.py:407-412): the channel afterwards
CycleOnError(ch, t) ==
    LET m1 == [ch.metrics EXCEPT !.fail_count = @ + 1]
    IN  [enabled |-> ch.enabled,
         check_count |-> ch.check_count + 1,
         metrics |-> [m1 EXCEPT !.overall_score = calculate_overall_score(m1, t)],
         proxies |-> << >>]

\* a cycle over a body that, left without a record, would count neither as
\* a success nor as a failure
CycleOnBodyEmptyUncounted(ch, text, t, db, geo) ==
    LET done == ProcessLines(BodyLines[text], ch.metrics, << >>, db, geo)
        checks == ch.check_count + 1
        m1 == IF done.proxies # << >>
              THEN [done.metrics EXCEPT !.success_count = @ + 1,
                                        !.last_success_time = t]
              ELSE done.metrics
        score == calculate_overall_score(m1, t)
    IN  [enabled |-> CircuitBreaker(ch.enabled, checks, score),
         check_count |-> checks,
         metrics |-> [m1 EXCEPT !.overall_score = score],
         proxies |-> ScaleScores(done.proxies, score)]

\* the transport returned `text` (config.py:414-476): the channel afterwards
\* and the list returned
CycleOnBody(ch, text, t, db, geo) ==
    LET done == ProcessLines(BodyLines[text], ch.metrics, << >>, db, geo)
        checks == ch.check_count + 1
        m1 == IF done.proxies # << >>
              THEN [done.metrics EXCEPT !.success_count = @ + 1,
                                        !.last_success_time = t]
              ELSE [done.metrics EXCEPT !.fail_count = @ + 1]
        score == calculate_overall_score(m1, t)
    IN  [enabled |-> CircuitBreaker(ch.enabled, checks, score),
         check_count |-> checks,
         metrics |-> [m1 EXCEPT !.overall_score = score],
         proxies |-> ScaleScores(done.proxies, score)]

-----------------------------------------------------------------------------
(* config.py: the registry's operations on channels *)

Channels == 1..NumChannels

\* a ChannelConfig object as one record
ChannelOf(c) ==
    [enabled |-> enabled[c], check_count |-> check_count[c],
     metrics |-> metrics[c]]

\* the members of a sequence
Range(seq) == {seq[k] : k \in 1..Len(seq)}

\* [channel for channel in self.SOURCE_URLS if channel.enabled]
EnabledChannels == SelectSeq(SOURCE_URLS, LAMBDA c : enabled[c])

\* the keys of SUPPORTED_PROTOCOLS (_initialize_protocols)
CatalogProtocols ==
    {"wireguard://", "hysteria2://", "vless://", "vmess://", "ss://",
     "trojan://", "tuic://"}

\* the key of protocol_counts at each position of ALLOWED_PROTOCOLS
AllowedNames == <<"vless://", "trojan://", "tuic://", "hy2://">>

\* _initialize_protocols followed by _set_smart_limits
InitialCatalog(maximum_power) ==
    [p \in CatalogProtocols |->
        [priority |-> IF p \in {"vmess://", "tuic://"} THEN 1 ELSE 2,
         aliases |-> IF p = "hysteria2://" THEN {"hy2://"} ELSE {},
         enabled |-> TRUE,
         min_configs |-> 1,
         max_configs |-> IF maximum_power THEN 10000 ELSE 56,
         flexible_max |-> TRUE]]

\* asyncio.Semaphore(60)
SEMAPHORE_PERMITS == 60

\* a semaphore that would let every task in
SemaphoreFreeUnguarded == TRUE

\* Semaphore.locked() is false: a permit is left
SemaphoreFree == sem_value > 0

\* ProxyConfig.get_enabled_channels (config.py:317-322)
\* (its return value is kept only by main, see StartRun)
GetEnabledChannels ==
    /\ run_pc = "none"
    /\ output_file' = IF EnabledChannels = << >> THEN save_empty_config_file
                      ELSE output_file
    /\ UNCHANGED <<splitVars, dedupVars, SOURCE_URLS, catalogVars, channelVars,
                   now, ip_db, taskVars, runVars, gatherVars>>

\* ProxyConfig.update_channel_stats (config.py:324-342); response_time is in
\* milliseconds
UpdateChannelStats(c, success, response_time) ==
    /\ run_pc = "none"
    /\ c \in Range(SOURCE_URLS)
    /\ metrics[c].success_count + metrics[c].fail_count - check_count[c]
           < MaxStatCalls
    /\ LET m == metrics[c]
           m1 == IF success
                 THEN [m EXCEPT !.success_count = @ + 1,
                                !.last_success_time = now]
                 ELSE [m EXCEPT !.fail_count = @ + 1]
           m2 == IF response_time > 0
                 THEN [m1 EXCEPT !.avg_response_time =
                          IF @ = 0 THEN response_time
                          ELSE (7 * @ + 3 * response_time) \div 10]
                 ELSE m1
           score == calculate_overall_score(m2, now)
       IN  /\ metrics' = [metrics EXCEPT ![c] = [m2 EXCEPT !.overall_score = score]]
           /\ enabled' = [enabled EXCEPT
                             ![c] = CircuitBreaker(@, check_count[c], score)]
    /\ output_file' = IF \E d \in Range(SOURCE_URLS) : enabled'[d]
                      THEN output_file ELSE save_empty_config_file
    /\ UNCHANGED <<splitVars, dedupVars, SOURCE_URLS, catalogVars, check_count,
                   now, ip_db, taskVars, runVars, gatherVars>>

\* an adjust_protocol_limits that would raise the floor to the count
AdjustProtocolLimitsRaising(c) ==
    /\ run_pc = "none"
    /\ c \in Range(SOURCE_URLS)
    /\ SUPPORTED_PROTOCOLS' =
          IF use_maximum_power THEN SUPPORTED_PROTOCOLS
          ELSE [p \in CatalogProtocols |->
                  LET at == {i \in 1..Len(AllowedNames) :
                                AllowedNames[i] = p
                                /\ metrics[c].protocol_counts[i] > 0}
                  IN  IF at = {} THEN SUPPORTED_PROTOCOLS[p]
                      ELSE LET current_count ==
                                   metrics[c].protocol_counts[CHOOSE i \in at : TRUE]
                           IN  [SUPPORTED_PROTOCOLS[p] EXCEPT !.min_configs =
                                   IF current_count > @ THEN current_count ELSE @]]
    /\ UNCHANGED <<splitVars, dedupVars, output_file, SOURCE_URLS,
                   use_maximum_power, channelVars, now, ip_db, taskVars,
                   runVars, gatherVars>>

\* ProxyConfig.adjust_protocol_limits (config.py:344-354)
AdjustProtocolLimits(c) ==
    /\ run_pc = "none"
    /\ c \in Range(SOURCE_URLS)
    /\ SUPPORTED_PROTOCOLS' =
          IF use_maximum_power THEN SUPPORTED_PROTOCOLS
          ELSE [p \in CatalogProtocols |->
                  LET at == {i \in 1..Len(AllowedNames) :
                                AllowedNames[i] = p
                                /\ metrics[c].protocol_counts[i] > 0}
                  IN  IF at = {} THEN SUPPORTED_PROTOCOLS[p]
                      ELSE LET current_count ==
                                   metrics[c].protocol_counts[CHOOSE i \in at : TRUE]
                           IN  [SUPPORTED_PROTOCOLS[p] EXCEPT !.min_configs =
                                   IF current_count < @ THEN current_count ELSE @]]
    /\ UNCHANGED <<splitVars, dedupVars, output_file, SOURCE_URLS,
                   use_maximum_power, channelVars, now, ip_db, taskVars,
                   runVars, gatherVars>>

\* the clock moves on by an hour
Tick ==
    /\ now < MaxClock
    /\ now' = now + 1
    /\ UNCHANGED <<splitVars, dedupVars, output_file, SOURCE_URLS, catalogVars,
                   channelVars, ip_db, taskVars, runVars, gatherVars>>

\* process_channel up to its await (config.py:401-404): the coroutine takes
\* a permit of the semaphore and sends the request
EnterSemaphore(c) ==
    /\ SemaphoreFree
    /\ sem_value' = sem_value - 1
    /\ pc' = [pc EXCEPT ![c] = "fetching"]
    /\ UNCHANGED <<splitVars, dedupVars, output_file, SOURCE_URLS, catalogVars,
                   channelVars, now, ip_db, results, runVars, gatherVars>>

\* a call of process_channel on a registered channel
CallProcessChannel(c) ==
    /\ run_pc = "none"
    /\ c \in Range(SOURCE_URLS)
    /\ pc[c] # "fetching"
    /\ check_count[c] < MaxChecks
    /\ EnterSemaphore(c)

\* the rest of process_channel once the transport has answered: the channel
\* becomes `after`, the permit is returned and the coroutine returns; pc
\* keeps which return it left by, "failed" for the one of the except branch
\* (config.py:412) and "done" for the last one (config.py:476)
LeaveCycle(c, after, at) ==
    /\ enabled' = [enabled EXCEPT ![c] = after.enabled]
    /\ check_count' = [check_count EXCEPT ![c] = after.check_count]
    /\ metrics' = [metrics EXCEPT ![c] = after.metrics]
    /\ results' = [results EXCEPT ![c] = after.proxies]
    /\ pc' = [pc EXCEPT ![c] = at]
    /\ sem_value' = sem_value + 1
    /\ done_order' = IF run_pc = "gathering" THEN Append(done_order, c)
                     ELSE done_order
    /\ UNCHANGED <<splitVars, dedupVars, output_file, SOURCE_URLS, catalogVars,
                   now, ip_db, run_pc, channels, proxies_all, gatherVars>>

\* the transport raised or timed out (config.py:407-412)
FetchFails(c) ==
    /\ pc[c] = "fetching"
    /\ LeaveCycle(c, CycleOnError(ChannelOf(c), now), "failed")

\* the transport returned the body `text` (config.py:405, 414-476)
FetchReturns(c, text, geo) ==
    /\ pc[c] = "fetching"
    /\ LeaveCycle(c, CycleOnBody(ChannelOf(c), text, now, ip_db, geo), "done")

-----------------------------------------------------------------------------
(* A sequence of calls on the registry's channels *)

\* the ip literals of the model's bodies, and what their lookups can do
\* during one cycle
ModelIps == {<<"1",".","2",".","3",".","4">>}
GeoChoices == [ModelIps -> GeoOutcomes]

\* what the lookups of one cycle over the body `text` can do: a cycle makes a
\* lookup only with a database and for a line with an ip literal
\* (config.py:438), so without one there is nothing to choose
LookupChoices(text, db) ==
    IF db # None /\ \E k \in DOMAIN BodyLines[text] :
                       BodyLines[text][k].proto # 0 /\ BodyLines[text][k].ip # << >>
    THEN GeoChoices
    ELSE {[ip \in ModelIps |-> GeoRaise]}

\* the transport returned the body `text`, and the lookups of the cycle did
\* one of the things they can do
DownloadReturns(c, text) ==
    \E geo \in LookupChoices(text, ip_db) : FetchReturns(c, text, geo)

\* the response times given to update_channel_stats, in milliseconds
ResponseTimes == {0, 4000}

\* the output file before anything has written it: apart from every content,
\* its one line is no text
NoFile == << <<"absent">> >>

InitFiles == output_file = NoFile

InitRegistry(registry, maximum_power) ==
    /\ SOURCE_URLS = registry
    /\ use_maximum_power = maximum_power
    /\ SUPPORTED_PROTOCOLS = InitialCatalog(maximum_power)
    /\ enabled = [c \in Channels |-> TRUE]
    /\ check_count = [c \in Channels |-> 0]
    /\ metrics = [c \in Channels |-> NewMetrics]
    /\ now = 0
    /\ pc = [c \in Channels |-> "idle"]
    /\ results = [c \in Channels |-> << >>]
    /\ sem_value = SEMAPHORE_PERMITS
    /\ channels = << >>
    /\ done_order = << >>
    /\ proxies_all = << >>

InitGatherVars ==
    /\ g_pending = 0
    /\ g_inflight = 0
    /\ g_done = 0

\* ProxyConfig() with one source, as __init__ sets it up (use_maximum_power
\* is True), and no geo database
Init ==
    /\ InitRegistry(<<1>>, TRUE)
    /\ ip_db = None
    /\ run_pc = "none"
    /\ InitGatherVars
    /\ sc_text = << >> /\ sc_out = << >> /\ sc_pc = "ready"
    /\ dd_in = << >> /\ dd_out = << >> /\ dd_pc = "ready"
    /\ InitFiles

Next ==
    \/ \E c \in Channels : CallProcessChannel(c)
    \/ \E c \in Channels : FetchFails(c)
    \/ \E c \in Channels, text \in CycleBodies : DownloadReturns(c, text)
    \/ \E c \in Channels, success \in BOOLEAN, rt \in ResponseTimes :
           UpdateChannelStats(c, success, rt)
    \/ \E c \in Channels : AdjustProtocolLimits(c)
    \/ GetEnabledChannels
    \/ Tick

Spec == Init /\ [][Next]_vars

-----------------------------------------------------------------------------
(* config.py: one run of main *)

S_TYPE == <<"t","y","p","e">>

\* parse_qs(query).get("type", ["Unknown"])[0]: the value of the first field
\* named "type" whose value is not blank; fields are separated by "&" and a
\* field without "=" is skipped.
\* (No query of the model holds "%" or "+", which parse_qs decodes.)
parse_qs_type(query) ==
    LET fields == SplitOn(query, "&")
        named == {k \in 1..Len(fields) :
                     LET eq == Find(fields[k], <<"=">>, 0)
                     IN  /\ eq # -1
                         /\ Sub(fields[k], 0, eq) = S_TYPE
                         /\ eq + 1 < Len(fields[k])}
    IN  IF named = {} THEN UNKNOWN
        ELSE LET f == fields[Min(named)]
             IN  Sub(f, Find(f, <<"=">>, 0) + 1, Len(f))

\* f"{config}#{flag} | {proto} | {proto_type}" (config.py:505-515), without
\* the line break
final_line(proxy) ==
    LET parsed == urlparse(proxy.config)
        proto == IF parsed.scheme # << >> THEN parsed.scheme ELSE UNKNOWN
    IN  proxy.config \o <<"#">> \o proxy.flag \o <<" ", "|", " ">> \o proto
            \o <<" ", "|", " ">> \o parse_qs_type(parsed.query)

\* sorted(proxies, key=score, reverse=True): the sort is stable, so a record
\* goes behind every record of the same or a higher score put in before it
RECURSIVE sorted_by_score(_)
sorted_by_score(proxies) ==
    IF proxies = << >> THEN << >>
    ELSE LET n == Len(proxies)
             front == sorted_by_score(SubSeq(proxies, 1, n - 1))
             p == proxies[n]
             k == Cardinality({i \in 1..(n - 1) : front[i].score >= p.score})
         IN  SubSeq(front, 1, k) \o <<p>> \o SubSeq(front, k + 1, n - 1)

\* results of gather in the order of the sequence `order`, one after another
RECURSIVE ExtendAll(_)
ExtendAll(order) ==
    IF order = << >> THEN << >>
    ELSE results[Head(order)] \o ExtendAll(Tail(order))

\* the order in which the tasks completed
GatherOrderByCompletion == done_order

\* the order in which gather hands back the results: that of the tasks
GatherOrder == channels

\* main up to runner (config.py:522-523)
StartRun ==
    /\ run_pc = "none"
    /\ channels' = EnabledChannels
    /\ output_file' = IF EnabledChannels = << >> THEN save_empty_config_file
                      ELSE output_file
    /\ run_pc' = "started"
    /\ UNCHANGED <<splitVars, dedupVars, SOURCE_URLS, catalogVars, channelVars,
                   now, ip_db, taskVars, done_order, proxies_all, gatherVars>>

\* runner up to the tasks of process_all_channels (config.py:526-485): the
\* geo database is there or is not, the semaphore is made
StartGather(db) ==
    /\ run_pc = "started"
    /\ ip_db' = db
    /\ sem_value' = SEMAPHORE_PERMITS
    /\ run_pc' = "gathering"
    /\ UNCHANGED <<splitVars, dedupVars, output_file, SOURCE_URLS, catalogVars,
                   channelVars, now, pc, results, channels, done_order,
                   proxies_all, gatherVars>>

\* the task of channel c runs process_channel up to its await
TaskStarts(c) ==
    /\ run_pc = "gathering"
    /\ c \in Range(channels)
    /\ pc[c] = "idle"
    /\ EnterSemaphore(c)

\* gather returns once every task has returned, and process_all_channels
\* puts the lists together (config.py:486-489)
GatherReturns ==
    /\ run_pc = "gathering"
    /\ \A c \in Range(channels) : pc[c] \in {"failed", "done"}
    /\ proxies_all' = ExtendAll(GatherOrder)
    /\ run_pc' = "saving"
    /\ UNCHANGED <<splitVars, dedupVars, output_file, SOURCE_URLS, catalogVars,
                   channelVars, now, ip_db, taskVars, channels, done_order,
                   gatherVars>>

\* save_final_configs(proxies, OUTPUT_FILE) (config.py:491-519)
SaveFinalConfigs ==
    /\ run_pc = "saving"
    /\ LET proxies_sorted == sorted_by_score(proxies_all)
       IN  output_file' = [k \in 1..Len(proxies_sorted) |->
                              final_line(proxies_sorted[k])]
    /\ run_pc' = "finished"
    /\ UNCHANGED <<splitVars, dedupVars, SOURCE_URLS, catalogVars, channelVars,
                   now, ip_db, taskVars, channels, done_order, proxies_all,
                   gatherVars>>

\* ProxyConfig() with NumChannels sources, before main goes on
InitRun ==
    /\ InitRegistry([c \in Channels |-> c], TRUE)
    /\ ip_db = None
    /\ run_pc = "none"
    /\ InitGatherVars
    /\ sc_text = << >> /\ sc_out = << >> /\ sc_pc = "ready"
    /\ dd_in = << >> /\ dd_out = << >> /\ dd_pc = "ready"
    /\ InitFiles

NextRun ==
    \/ StartRun
    \/ \E db \in {None, "db"} : StartGather(db)
    \/ \E c \in Channels : TaskStarts(c)
    \/ \E c \in Channels : FetchFails(c)
    \/ \E c \in Channels, text \in RunBodies : DownloadReturns(c, text)
    \/ GatherReturns
    \/ SaveFinalConfigs
    \/ Tick

SpecRun == InitRun /\ [][NextRun]_vars

-----------------------------------------------------------------------------
(* config.py: process_all_channels on many sources.  The tasks of gather are
   alike, so they are counted by where they stand: not yet in the semaphore,
   in it with the transport call in flight, or past it. *)

\* process_all_channels(channels, ...) with n channels: the semaphore is made
\* and gather has made one task for each channel (config.py:482-486)
InitGather ==
    /\ InitRegistry(<<1>>, TRUE)
    /\ ip_db = None
    /\ run_pc = "gathering"
    /\ g_pending \in 1..NumTasks
    /\ g_inflight = 0
    /\ g_done = 0
    /\ sc_text = << >> /\ sc_out = << >> /\ sc_pc = "ready"
    /\ dd_in = << >> /\ dd_out = << >> /\ dd_pc = "ready"
    /\ InitFiles

\* a task goes through `async with semaphore` and sends its request
\* (config.py:402-404)
GatherTaskEnters ==
    /\ g_pending > 0
    /\ SemaphoreFree
    /\ sem_value' = sem_value - 1
    /\ g_pending' = g_pending - 1
    /\ g_inflight' = g_inflight + 1
    /\ UNCHANGED <<splitVars, dedupVars, output_file, SOURCE_URLS, catalogVars,
                   channelVars, now, ip_db, pc, results, runVars, g_done>>

\* the transport call of a task returns, raises or runs into its timeout, and
\* the task leaves the semaphore (config.py:405-412)
GatherTransportEnds ==
    /\ g_inflight > 0
    /\ sem_value' = sem_value + 1
    /\ g_inflight' = g_inflight - 1
    /\ g_done' = g_done + 1
    /\ UNCHANGED <<splitVars, dedupVars, output_file, SOURCE_URLS, catalogVars,
                   channelVars, now, ip_db, pc, results, runVars, g_pending>>

NextGather == GatherTaskEnters \/ GatherTransportEnds

\* the event loop runs a task that can go on, and every request ends, by its
\* timeout at the latest
SpecGather ==
    /\ InitGather
    /\ [][NextGather]_vars
    /\ WF_vars(GatherTaskEnters)
    /\ WF_vars(GatherTransportEnds)

-----------------------------------------------------------------------------
(* The inputs of split_configs: every text of at most MaxPieces pieces *)

B64_VLESS_A == <<"d","m","x","l","c","3","M","6","L","y","9","h">>

SplitPieces ==
    {P_VLESS, P_TROJAN, P_TUIC, P_HY2, P_HYSTERIA2,
     <<"a">>, <<" ">>, <<"\n">>, B64_VLESS_A}

RECURSIVE PieceTexts(_)
PieceTexts(n) ==
    IF n = 0 THEN {<< >>}
    ELSE LET shorter == PieceTexts(n - 1)
         IN  shorter \cup {t \o p : t \in shorter, p \in SplitPieces}

SplitInputs == PieceTexts(MaxPieces)

-----------------------------------------------------------------------------
(* One call of split_configs *)

InitSplitVars ==
    /\ sc_text = << >>
    /\ sc_out = << >>
    /\ sc_pc = "ready"

InitDedupVars ==
    /\ dd_in = << >>
    /\ dd_out = << >>
    /\ dd_pc = "ready"

InitSplit ==
    /\ sc_text \in SplitInputs
    /\ sc_out = << >>
    /\ sc_pc = "ready"
    /\ InitDedupVars
    /\ InitFiles
    /\ InitRegistry(<< >>, TRUE)
    /\ ip_db = None
    /\ run_pc = "none"
    /\ InitGatherVars

SplitCall ==
    /\ sc_pc = "ready"
    /\ sc_out' = split_configs(sc_text)
    /\ sc_pc' = "done"
    /\ UNCHANGED <<sc_text, dedupVars, output_file, SOURCE_URLS, catalogVars,
                   channelVars, now, ip_db, taskVars, runVars, gatherVars>>

NextSplit == SplitCall

SpecSplit == InitSplit /\ [][NextSplit]_vars

-----------------------------------------------------------------------------
(* One call of _remove_duplicate_urls *)

InitDedup ==
    /\ dd_in \in UrlLists(MaxSources)
    /\ dd_out = << >>
    /\ dd_pc = "ready"
    /\ InitSplitVars
    /\ InitFiles
    /\ InitRegistry(<< >>, TRUE)
    /\ ip_db = None
    /\ run_pc = "none"
    /\ InitGatherVars

DedupCall ==
    /\ dd_pc = "ready"
    /\ dd_out' = remove_duplicate_urls(dd_in)
    /\ output_file' = IF dd_out' = << >> THEN save_empty_config_file
                      ELSE output_file
    /\ dd_pc' = "done"
    /\ UNCHANGED <<dd_in, splitVars, SOURCE_URLS, catalogVars, channelVars,
                   now, ip_db, taskVars, runVars, gatherVars>>

NextDedup == DedupCall

SpecDedup == InitDedup /\ [][NextDedup]_vars

-----------------------------------------------------------------------------
(* Claims about split_configs *)

\* the positions of the blob where an allowed protocol prefix occurs
PrefixPositions(text) ==
    {i \in 0..(Len(text) - 1) : \E p \in ProtocolSet : MatchAt(text, p, i)}

\* one record per prefix occurrence of the blob, left to right: the trimmed
\* text from the occurrence to the next occurrence or the end of the text
RecordsOf(text) ==
    LET pos == PrefixPositions(text)
        n == Cardinality(pos)
        nth(k) == CHOOSE i \in pos : Cardinality({j \in pos : j < i}) = k - 1
    IN  [k \in 1..n |->
            Strip(Sub(text, nth(k), IF k = n THEN Len(text) ELSE nth(k + 1)))]

\* C9: for any input blob, split_configs returns exactly one record per
\* occurrence of a recognized prefix in the blob, in left-to-right order, each
\* the trimmed text from its prefix to the next prefix occurrence or the end.
C9_OneRecordPerOccurrence ==
    sc_pc = "done" => sc_out = RecordsOf(sc_text)

\* the record of a blob that begins with the alias prefix: the trimmed text
\* up to the next prefix (canonical or alias) or the end of the text
AliasRecord(text) ==
    LET from == Len(P_HYSTERIA2)
        nexts == {i \in from..(Len(text) - 1) :
                     \E p \in ProtocolSet \cup {P_HYSTERIA2} : MatchAt(text, p, i)}
    IN  Strip(Sub(text, 0, IF nexts = {} THEN Len(text) ELSE Min(nexts)))

\* C10: a record of the input that begins with the alias prefix hysteria2://
\* is emitted by split_configs with that leading prefix replaced by hy2:// and
\* every other character unchanged.
C10_AliasRecordEmitted ==
    (sc_pc = "done" /\ StartsWith(sc_text, P_HYSTERIA2))
        => \E k \in 1..Len(sc_out) :
               sc_out[k] = P_HY2 \o Sub(AliasRecord(sc_text), Len(P_HYSTERIA2),
                                        Len(AliasRecord(sc_text)))

-----------------------------------------------------------------------------
(* Claims about the source registry *)

\* the identity the claim gives a source: its url with ssconf:// read as
\* https://, without a trailing slash, and with the channel path of a
\* t.me/s/ channel-feed url in lower case
ClaimIdentity(url) ==
    LET u == IF StartsWith(url, S_SSCONF)
             THEN S_HTTPS \o Sub(url, Len(S_SSCONF), Len(url)) ELSE url
        v == IF u # << >> /\ u[Len(u)] = "/" THEN Sub(u, 0, Len(u) - 1) ELSE u
    IN  IF StartsWith(v, S_HTTPS \o T_ME_S) THEN Lower(v) ELSE v

\* the positions of the first source of each identity, in input order
RECURSIVE FirstOfEachIdentity(_, _)
FirstOfEachIdentity(urls, i) ==
    IF i > Len(urls) THEN << >>
    ELSE IF \E j \in 1..(i - 1) : ClaimIdentity(urls[j]) = ClaimIdentity(urls[i])
         THEN FirstOfEachIdentity(urls, i + 1)
    ELSE <<i>> \o FirstOfEachIdentity(urls, i + 1)

\* a list of well-formed source urls: each has a host and no query
WellFormedSources(urls) ==
    \A i \in 1..Len(urls) :
        normalize_url(urls[i]) # None /\ Find(urls[i], <<"?">>, 0) = -1

\* C5: _remove_duplicate_urls returns, in input order, exactly the first
\* source of each normalized identity, where two urls have the same identity
\* when they differ only by a trailing slash, by ssconf:// versus https://, or
\* by letter case in the channel path of a t.me/s/ url.
C5_FirstOfEachIdentity ==
    (dd_pc = "done" /\ WellFormedSources(dd_in))
        => dd_out = FirstOfEachIdentity(dd_in, 1)

-----------------------------------------------------------------------------
(* The circuit breaker and the source score, under Spec *)

\* channel c is past the breaker's threshold
BreakerCondition(checks, score) ==
    checks >= MAX_SOURCE_CHECKS /\ score < 100 * MIN_ACCEPTABLE_SCORE

\* the step ends a cycle of channel c
CycleEnds(c) == pc[c] = "fetching" /\ pc'[c] \in {"failed", "done"}

\* C1: at the end of every fetch cycle of an enabled source, by a download or
\* by a transport error, the source is disabled exactly when its check_count
\* after the increment is at least 30 and its recomputed overall_score is
\* below 50, and stays enabled otherwise.
C1_BreakerAtEveryCycleEnd ==
    [][\A c \in Channels :
          (CycleEnds(c) /\ enabled[c]) =>
              (enabled'[c] <=>
                  ~BreakerCondition(check_count'[c], metrics'[c].overall_score))]_vars

\* C2: once a source's enabled flag is false, no cycle of process_channel and
\* no call of update_channel_stats, adjust_protocol_limits or
\* get_enabled_channels sets it back to true.
C2_NeverReEnabled ==
    [][\A c \in Channels : ~enabled[c] => ~enabled'[c]]_vars

\* a disabled source whose score has since been recomputed to 50 or more
C2_DisabledWithGoodScore ==
    \E c \in Range(SOURCE_URLS) :
        /\ ~enabled[c]
        /\ metrics[c].overall_score >= 100 * MIN_ACCEPTABLE_SCORE

\* C3: after any sequence of process_channel cycles and update_channel_stats
\* calls on a fresh source, its overall_score lies in [0, 100] (here in
\* hundredths), so the multiplier 1 + overall_score / 100 of the records'
\* scores (the factor of ScaleScores, over 10000) lies in [1, 2].
C3_ScoreInRange ==
    \A c \in Channels :
        /\ metrics[c].overall_score >= 0
        /\ metrics[c].overall_score <= 100 * 100
        /\ 10000 + metrics[c].overall_score \in 10000..20000

\* a source that has been through cycles and through update_channel_stats,
\* every one of them a success, and has returned records
C3_AllSuccesses ==
    \E c \in Range(SOURCE_URLS) :
        /\ check_count[c] >= 3
        /\ metrics[c].success_count > check_count[c]
        /\ metrics[c].fail_count = 0
        /\ results[c] # << >>
        /\ metrics[c].overall_score > 100 * MIN_ACCEPTABLE_SCORE

-----------------------------------------------------------------------------
(* One run of main, under SpecRun *)

Returned == {"failed", "done"}

\* the config of an output line: what stands before the last "#"
ConfigOfLine(line) == Sub(line, 0, RFind(line, "#"))

\* C4: after process_all_channels and save_final_configs no config string is
\* on more than one line of the output, also when two sources, or two lines
\* of one source, gave the same string.
C4_NoConfigTwice ==
    run_pc = "finished" =>
        \A i, j \in 1..Len(output_file) :
            i # j => ConfigOfLine(output_file[i]) # ConfigOfLine(output_file[j])

\* C6: a cycle whose transport call raises or times out adds one to the
\* source's fail_count and one to its check_count, leaves its success_count,
\* total_configs and valid_configs alone, returns an empty list to gather
\* without raising, and leaves every other source's metrics and enabled flag
\* alone; the records of all sources are then put together by gather.
C6_TransportErrorContained ==
    [][/\ \A c \in Channels :
             (pc[c] = "fetching" /\ pc'[c] = "failed") =>
                 /\ metrics'[c].fail_count = metrics[c].fail_count + 1
                 /\ check_count'[c] = check_count[c] + 1
                 /\ metrics'[c].success_count = metrics[c].success_count
                 /\ metrics'[c].total_configs = metrics[c].total_configs
                 /\ metrics'[c].valid_configs = metrics[c].valid_configs
                 /\ results'[c] = << >>
                 /\ run_pc' = run_pc
                 /\ \A d \in Channels \ {c} :
                       /\ metrics'[d] = metrics[d]
                       /\ enabled'[d] = enabled[d]
                       /\ results'[d] = results[d]
                       /\ pc'[d] = pc[d]
       /\ (run_pc = "gathering" /\ run_pc' = "saving") =>
             /\ \A d \in Range(channels) : \A k \in 1..Len(results[d]) :
                   \E i \in 1..Len(proxies_all') : proxies_all'[i] = results[d][k]
             /\ \A i \in 1..Len(proxies_all') :
                   \E d \in Range(channels) : \E k \in 1..Len(results[d]) :
                       proxies_all'[i] = results[d][k]]_vars

\* a finished run in which the transport of one source raised and the one
\* record of another source is the one line of the output
C6_OneFailedOneRecord ==
    /\ run_pc = "finished"
    /\ \E c, d \in Range(channels) :
          /\ pc[c] = "failed"
          /\ metrics[c].fail_count = 1
          /\ check_count[c] = 1
          /\ pc[d] = "done"
          /\ Len(results[d]) = 1
    /\ Len(output_file) = 1

\* the scores of a list of records never go up
NonIncreasing(proxies) ==
    \A k \in 1..(Len(proxies) - 1) : proxies[k].score >= proxies[k + 1].score

\* a comes before b in the sequence order
Before(order, a, b) ==
    \E i, j \in 1..Len(order) : i < j /\ order[i] = a /\ order[j] = b

\* C8: for a fixed set of sources and fixed fetch outcomes the output is
\* written only after every source's cycle has returned, is in non-increasing
\* order of score, and is the same sequence whatever the order in which the
\* cycles complete: the stable ranking of the sources' lists taken in the
\* order of the sources.
C8_RankingIgnoresCompletionOrder ==
    [][/\ output_file' # output_file =>
             \A c \in Range(channels) : pc[c] \in Returned
       /\ (run_pc = "saving" /\ run_pc' = "finished") =>
             LET ranked == sorted_by_score(ExtendAll(channels))
             IN  /\ NonIncreasing(ranked)
                 /\ output_file' = [k \in 1..Len(ranked) |-> final_line(ranked[k])]]_vars

\* a finished run in which two sources returned records of one score and
\* different configs, the later source completing first
C8_TieCompletedOutOfOrder ==
    /\ run_pc = "finished"
    /\ \E c, d \in Range(channels) :
          /\ Before(channels, c, d)
          /\ Before(done_order, d, c)
          /\ results[c] # << >> /\ results[d] # << >>
          /\ results[c][1].score = results[d][1].score
          /\ results[c][1].config # results[d][1].config

-----------------------------------------------------------------------------
(* The semaphore of process_all_channels, under SpecGather *)

\* C7: at every moment of a run of process_all_channels, whatever the number
\* of sources, at most 60 transport calls are in flight, and every source's
\* cycle gets its turn in the end as the earlier transport calls finish.
C7_BoundedAndServed ==
    /\ [](g_inflight <= SEMAPHORE_PERMITS)
    /\ [](g_inflight + sem_value = SEMAPHORE_PERMITS)
    /\ <>(g_pending = 0)

\* the semaphore is full again after a call has ended, and a task still waits
C7_FullWithWaiter ==
    /\ g_inflight = SEMAPHORE_PERMITS
    /\ g_pending >= 1
    /\ g_done >= 1

-----------------------------------------------------------------------------
(* The empty output and the paths of a cycle, under Spec *)

\* C11: whenever the circuit breaker disables a source and no source of the
\* registry is enabled afterwards, the empty output file is written in that
\* same step, whether the breaker acted in update_channel_stats or at the end
\* of a cycle of process_channel.
C11_EmptySignalledOnLastDisable ==
    [][\A c \in Range(SOURCE_URLS) :
          (/\ enabled[c]
           /\ ~enabled'[c]
           /\ \A d \in Range(SOURCE_URLS) : ~enabled'[d])
              => output_file' = save_empty_config_file]_vars


\* C12: whenever the transport call of a source returns a body without an
\* error, the cycle takes the success path, whatever the number of records
\* in the body, zero included: success_count goes up by exactly one,
\* last_success_time is set to the time of the cycle, fail_count stays.
C12_DownloadIsSuccess ==
    [][\A c \in Channels :
          (pc[c] = "fetching" /\ pc'[c] = "done") =>
              /\ metrics'[c].success_count = metrics[c].success_count + 1
              /\ metrics'[c].last_success_time = now
              /\ metrics'[c].fail_count = metrics[c].fail_count]_vars


\* the lines of a body that are not empty once stripped
NonEmptyLines(text) ==
    LET lines == splitlines(text)
    IN  Cardinality({k \in 1..Len(lines) : Strip(lines[k]) # << >>})

\* that number for each body of the model
NonEmptyLineCount ==
    [text \in CycleBodies \cup RunBodies |-> NonEmptyLines(text)]

\* no counter of channel c goes down in the step
CountersKept(c) ==
    /\ metrics'[c].total_configs >= metrics[c].total_configs
    /\ metrics'[c].valid_configs >= metrics[c].valid_configs
    /\ metrics'[c].unique_configs >= metrics[c].unique_configs
    /\ metrics'[c].success_count >= metrics[c].success_count
    /\ metrics'[c].fail_count >= metrics[c].fail_count
    /\ check_count'[c] >= check_count[c]
    /\ \A i \in 1..Len(ALLOWED_PROTOCOLS) :
          metrics'[c].protocol_counts[i] >= metrics[c].protocol_counts[i]

\* C13: across any sequence of process_channel cycles and
\* update_channel_stats calls no counter of a source (total_configs,
\* valid_configs, unique_configs, success_count, fail_count, check_count and
\* each per-protocol count) ever goes down; total_configs goes up by exactly
\* one for each line of the body that is not empty when trimmed, rejected
\* lines included, and by nothing in any other step; unique_configs is always
\* the number of protocols with a count above zero.
C13_CountersOnlyGrow ==
    [][\A c \in Channels :
          /\ CountersKept(c)
          /\ (pc[c] = "fetching" /\ pc'[c] = "done") =>
                \A text \in CycleBodies :
                    DownloadReturns(c, text) =>
                        metrics'[c].total_configs =
                            metrics[c].total_configs + NonEmptyLineCount[text]
          /\ ~(pc[c] = "fetching" /\ pc'[c] = "done") =>
                    metrics'[c].total_configs = metrics[c].total_configs
          /\ metrics'[c].unique_configs =
                Cardinality({i \in 1..Len(ALLOWED_PROTOCOLS) :
                                metrics'[c].protocol_counts[i] > 0})]_vars

\* a source that has had cycles with rejected and accepted lines, more than
\* one record of a protocol, and a call of update_channel_stats
C13_MixedLinesAndStats ==
    \E c \in Range(SOURCE_URLS) :
        /\ metrics[c].total_configs > metrics[c].valid_configs
        /\ metrics[c].valid_configs > metrics[c].unique_configs
        /\ metrics[c].unique_configs = 2
        /\ metrics[c].success_count + metrics[c].fail_count > check_count[c]
        /\ metrics[c].fail_count > 0

-----------------------------------------------------------------------------
(* config_validator.py: validate_protocol_config, and the records of
   split_configs under SpecSplit *)

\* ConfigValidator.validate_protocol_config(config, protocol); no url of the
\* model makes urlparse raise
validate_protocol_config(config, protocol) ==
    IF protocol \notin ProtocolSet THEN FALSE
    ELSE IF protocol \in {P_VLESS, P_TROJAN}
         THEN urlparse(config).netloc # << >>
    ELSE IF protocol = P_TUIC
         THEN /\ urlparse(config).netloc # << >>
              /\ Find(urlparse(config).netloc, <<":">>, 0) # -1
    ELSE IF protocol = P_HY2
         THEN urlparse(normalize_hysteria2_protocol(config)).netloc # << >>
    ELSE FALSE

\* C14: every record split_configs returns starts with a recognized prefix
\* and passes validate_protocol_config for that prefix (an authority that is
\* not empty for vless://, trojan:// and hy2://, one with a ":" for tuic://);
\* a record that is a bare prefix, such as "vless://", is never returned.
C14_RecordsPassStructuralCheck ==
    sc_pc = "done" =>
        \A k \in 1..Len(sc_out) :
            /\ LineProtocol(sc_out[k]) # 0
            /\ validate_protocol_config(sc_out[k],
                   ALLOWED_PROTOCOLS[LineProtocol(sc_out[k])])
            /\ sc_out[k] \notin ProtocolSet


-----------------------------------------------------------------------------
(* C15: the geo adjustment of a record's score *)

\* the score process_channel gave a returned record before the multiplier of
\* its source, in tenths (the metrics of a source stay as the cycle left them
\* for the rest of a run)
UnscaledScore(c, k) == results[c][k].score \div (10000 + metrics[c].overall_score)

\* C15: before the multiplier of the source, the score of every accepted
\* record is its profile score plus exactly one geo adjustment: +10 when its
\* ip literal resolved to a known country (the record carries the flag of
\* one), -5 in every other case
C15_ExactlyOneGeoAdjustment ==
    \A c \in Channels : pc[c] = "done" =>
        \A k \in 1..Len(results[c]) :
            UnscaledScore(c, k) =
                compute_profile_score(results[c][k].config)
                    + (IF results[c][k].flag # UNKNOWN THEN 100 ELSE -50)


-----------------------------------------------------------------------------
(* C16: adjust_protocol_limits over the catalog of either acquisition mode *)

\* the fetch cycles a channel gets between calls of adjust_protocol_limits
MaxLimitCycles == 2

\* ProxyConfig() with use_maximum_power set to either of the two options of
\* __init__ (config.py:147-152), two sources and no geo database
InitLimits ==
    /\ \E maximum_power \in BOOLEAN : InitRegistry(<<1, 2>>, maximum_power)
    /\ ip_db = None
    /\ run_pc = "none"
    /\ InitGatherVars
    /\ sc_text = << >> /\ sc_out = << >> /\ sc_pc = "ready"
    /\ dd_in = << >> /\ dd_out = << >> /\ dd_pc = "ready"
    /\ InitFiles

\* a call of process_channel, for as long as the channel has cycles left
LimitsCycleStarts(c) ==
    /\ check_count[c] < MaxLimitCycles
    /\ CallProcessChannel(c)

NextLimits ==
    \/ \E c \in Channels : LimitsCycleStarts(c)
    \/ \E c \in Channels : FetchFails(c)
    \/ \E c \in Channels, text \in CycleBodies : DownloadReturns(c, text)
    \/ \E c \in Channels : AdjustProtocolLimits(c)

SpecLimits == InitLimits /\ [][NextLimits]_vars

\* the fields of a catalog entry other than min_configs
OtherFields(entry) ==
    [priority |-> entry.priority, aliases |-> entry.aliases,
     enabled |-> entry.enabled, max_configs |-> entry.max_configs]

\* C16: over any sequence of adjust_protocol_limits calls with any source
\* metrics, no protocol's min_configs ever increases and no other field of
\* the catalog (max_configs, priority, aliases, enabled) changes; when
\* use_maximum_power is true the whole catalog stays as it is
C16_FloorOnlyLowered ==
    [][/\ DOMAIN SUPPORTED_PROTOCOLS' = DOMAIN SUPPORTED_PROTOCOLS
       /\ \A p \in DOMAIN SUPPORTED_PROTOCOLS :
             /\ SUPPORTED_PROTOCOLS'[p].min_configs
                    <= SUPPORTED_PROTOCOLS[p].min_configs
             /\ OtherFields(SUPPORTED_PROTOCOLS'[p])
                    = OtherFields(SUPPORTED_PROTOCOLS[p])
       /\ use_maximum_power => SUPPORTED_PROTOCOLS' = SUPPORTED_PROTOCOLS]_vars

\* in specific-count mode a source has counted two records of a protocol of
\* the catalog after two cycles, with the floor of that protocol at 1: a
\* call of adjust_protocol_limits on it compares a count above the floor
C16_CountAboveFloor ==
    /\ ~use_maximum_power
    /\ \E c \in Range(SOURCE_URLS) :
          /\ pc[c] = "done"
          /\ metrics[c].protocol_counts[1] = 2
          /\ SUPPORTED_PROTOCOLS["vless://"].min_configs = 1
          /\ SUPPORTED_PROTOCOLS["vless://"].max_configs = 56


-----------------------------------------------------------------------------
(* C17: the counters of a source after cycles of process_channel alone *)

\* C17: after any number of completed process_channel cycles on a source
\* (and no update_channel_stats call), check_count equals success_count +
\* fail_count, and valid_configs equals the sum of the per-protocol counts
\* and is at most total_configs
C17_EveryCycleCountedOnce ==
    \A c \in Range(SOURCE_URLS) : pc[c] # "fetching" =>
        /\ check_count[c] = metrics[c].success_count + metrics[c].fail_count
        /\ metrics[c].valid_configs = SumOfProtocolCounts(metrics[c].protocol_counts)
        /\ metrics[c].valid_configs <= metrics[c].total_configs

\* a source has completed two cycles, one that returned records among
\* rejected lines and then one whose transport failed
C17_SuccessThenFailure ==
    \E c \in Range(SOURCE_URLS) :
        /\ pc[c] = "failed"
        /\ check_count[c] = 2
        /\ metrics[c].success_count = 1 /\ metrics[c].fail_count = 1
        /\ metrics[c].valid_configs = 2 /\ metrics[c].total_configs = 3

=============================================================================
